---- MODULE Spec2Model ----
(***************************************************************************)
(* Model of the weather-app service workers, server cache and page script. *)
(*                                                                         *)
(*   static/js/sw.js      the registered worker: precache, runtime and     *)
(*                        api-cache stores, network-first fetch handler    *)
(*                        (specification Spec)                             *)
(*   service-worker.js    the earlier worker (unnamed/part_002): static    *)
(*                        and runtime stores, bounded runtime cache        *)
(*                        (specification SpecSW1)                          *)
(*   server cache         get_or_fetch with TTL, LRU eviction and one      *)
(*                        fetch in flight per key, after spec.md 3, 4.1    *)
(*                        and 9 (specification SpecCache)                  *)
(*   normalize            key normalization after spec.md 4.2              *)
(*                        (specification SpecNormalize)                    *)
(*   static/js/main.js    the page script (unnamed/part_001 holds its      *)
(*                        longer version): the cities grid, the location   *)
(*                        button and the favourites (specifications        *)
(*                        SpecCities, SpecLocate and SpecFavorites)        *)
(*                                                                         *)
(* Every await of a handler is one step of the model, so handlers of       *)
(* different in-flight requests interleave exactly at their suspension     *)
(* points.  Paths are sequences of segments: "/" is <<>>, "/api/weather"   *)
(* is <<"api", "weather">>.                                                *)
(***************************************************************************)
EXTENDS Integers, Sequences, FiniteSets, TLC

\* ---------------------------------------------------------------- bounds
MaxReqs == 1          \* fetch events in flight at the same time
MaxBody == 2          \* distinct payloads the server can answer with
MaxPeriods == 1       \* the clock covers MaxPeriods TTL periods ...
MaxJitter == 1        \* ... plus up to MaxJitter ms around each
StartTime == 1000000  \* Date.now() when the worker starts (ms)
MaxNewKeys == 1       \* API URLs requested beyond those already cached
\* server cache: small values of its two settings (defaults 256 and 300)
capacity == 2
ttl_seconds == 1
MaxElapsed == 1       \* the server clock runs to ttl_seconds + MaxElapsed
MaxCallers == 2       \* get_or_fetch calls running at the same time
MaxLen == 3           \* longest component of a query as typed
MaxCalls == 2         \* fetchDefaultCities calls running at the same time
MaxClicks == 2        \* location-button click handlers that could be running

\* ------------------------------------------------------ sw.js constants
CACHE_VERSION == "v2"
PRECACHE == "precache-v2"
RUNTIME == "runtime-v2"
API_CACHE == "api-cache-v2"
API_CACHE_TTL == 300000

Root == <<>>
Offline == <<"offline">>
PRECACHE_URLS ==
    { Root, Offline, <<"static", "css", "styles.css">>,
      <<"static", "js", "main.js">>, <<"static", "manifest.json">> }

CurrentNames == { PRECACHE, RUNTIME, API_CACHE }

\* -------------------------------- service-worker.js (part_002) constants
STATIC_CACHE_NAME == "weather-app-static-v1"
RUNTIME_CACHE_NAME == "weather-app-runtime-v1"
maxEntries == 50
SW1Names == { STATIC_CACHE_NAME, RUNTIME_CACHE_NAME }

\* what the cache storage of the origin can hold when a worker starts:
\* nothing, or the stores left by an earlier deployment of either worker
InitialStores ==
    { a \cup b \cup c : a \in { {}, { PRECACHE }, CurrentNames },
                        b \in { {}, { STATIC_CACHE_NAME }, SW1Names },
                        c \in { {}, { "precache-v1" } } }

\* ------------------------------------------------------------- requests
ApiWeather == <<"api", "weather">>
About == <<"about">>
MainJs == <<"static", "js", "main.js">>

Paths == PRECACHE_URLS \cup { ApiWeather, About }

Request(p, m, mode, html) ==
    [path |-> p, method |-> m, mode |-> mode, html |-> html]

NoRequest == Request(Root, "NONE", "none", FALSE)

\* every shape of request the fetch listener tells apart
AllRequests ==
    { Request(p, m, mode, html) :
        p \in { ApiWeather, <<"api">>, About, MainJs },
        m \in { "GET", "POST" },
        mode \in { "navigate", "cors", "no-cors" },
        html \in BOOLEAN }

\* the requests pages send to the worker
Requests ==
    { Request(ApiWeather, "GET", "cors", FALSE),
      Request(About, "GET", "navigate", TRUE),
      Request(Offline, "GET", "navigate", TRUE),
      Request(MainJs, "GET", "no-cors", FALSE) }

Bodies == 1..MaxBody
ReqIds == 1..MaxReqs

TimePoints ==
    { StartTime + k * API_CACHE_TTL + j : k \in 0..MaxPeriods, j \in 0..MaxJitter }

\* ---------------------------------------------------- responses, entries
\* a Response: status, body and the sw-cache-time header (0 when not set)
Resp(s, b, t) == [status |-> s, body |-> b, time |-> t]
\* Number(header) of an sw-cache-time header that is not a number
NaN == -1
NoEntry == Resp(0, 0, 0)                  \* cache.match() gave undefined
IsOkAny(r) == TRUE

IsOk(r) == r.status >= 200 /\ r.status <= 299      \* Response.ok

\* what fetch(req) can resolve with: a 200 with some payload, or a 404
NetResponses == { Resp(200, b, 0) : b \in 1..MaxBody } \cup { Resp(404, 0, 0) }
\* a precached asset, with the payload it had when the worker was installed
InstalledAsset == Resp(200, 1, 0)

\* what respondWith() finally got
Result(kind, from, key, r, err) ==
    [kind |-> kind, from |-> from, key |-> key, resp |-> r, err |-> err]
NoResult == Result("none", "", Root, NoEntry, "")
FromNetwork(r) == Result("network", "", Root, r, "")
FromCache(store, key, r) == Result("cache", store, key, r, "")
Synth503 == Result("synth", "", Root, Resp(503, 0, 0), "")
Undefined == Result("undefined", "", Root, NoEntry, "")
Rejected(err) == Result("rejected", "", Root, NoEntry, err)

EmptyStore == [p \in Paths |-> NoEntry]

VARIABLES
    now,        \* Date.now()
    stores,     \* caches.keys(): names of the cache stores that exist
    precache,   \* content of PRECACHE
    runtime,    \* content of RUNTIME
    apiCache,   \* content of API_CACHE
    sw,         \* lifecycle of the sw.js worker
    actKeys,    \* activate listener: the keys it read
    assetFail,  \* install: some precache asset could not be fetched
    reqs        \* the fetch events being handled

VARIABLES
    sw1,        \* lifecycle of the service-worker.js worker
    act1Keys,   \* its activate listener: the cacheNames it read
    static1,    \* URLs stored in STATIC_CACHE_NAME
    runtime1,   \* entries of RUNTIME_CACHE_NAME, oldest first
    reqs1       \* the fetch events service-worker.js is handling

VARIABLES
    clock,      \* the server's time, in seconds
    cache,      \* the server cache: its entries, least recently used first
    inflight,   \* keys whose upstream fetch is in flight
    callers,    \* the get_or_fetch calls that have not returned yet
    last        \* the get_or_fetch return that happened last

VARIABLES
    query,      \* a location query (city, state, country)
    nkey,       \* normalize(query)
    nkey0       \* normalize of the query as first written

VARIABLES
    unitStored,      \* localStorage[UNIT_KEY]; "" when never set
    citiesGrid,      \* children of #citiesGrid, in document order
    cityCalls,       \* the fetchDefaultCities calls that have not settled
    refreshDisabled, \* refreshBtn.disabled
    citiesFailed,    \* some fetchDefaultCities call ended in its catch
    citiesOverlap,   \* some fetchDefaultCities call began while one was running
    locationBtn,     \* #locationBtn: disabled and its loading class
    locating,        \* the location-button click handlers still running
    locLast,         \* the last event around the location button
    details,         \* what showDetails was last called with
    favorites,       \* localStorage[FAVORITES_KEY], parsed
    favLast          \* the last toggleFavorite call and what it returned

swVars == <<precache, runtime, apiCache, sw, actKeys, assetFail, reqs>>
sw1Vars == <<sw1, act1Keys, static1, runtime1, reqs1>>
citiesVars == <<unitStored, citiesGrid, cityCalls, refreshDisabled, citiesFailed, citiesOverlap>>
locateVars == <<locationBtn, locating, locLast, details>>
favVars == <<favorites, favLast>>
pageVars == <<citiesVars, locateVars, favVars>>
pwaVarsBase == <<now, stores, swVars, sw1Vars>>
pwaVars == <<pwaVarsBase, pageVars>>
srvVars == <<clock, cache, inflight, callers, last>>
normVars == <<query, nkey, nkey0>>
appVars == <<srvVars, normVars, pageVars>>

vars == <<now, stores, swVars, appVars, sw1Vars, appVars>>

\* --------------------------------------------------------------- helpers
\* url.pathname.startsWith('/api/')
IsApi(r) == Len(r.path) >= 2 /\ r.path[1] = "api"

\* req.mode === 'navigate' || (req.method === 'GET' && accept includes text/html)
IsNavigation(r) == r.mode = "navigate" \/ (r.method = "GET" /\ r.html)

\* the listener without the return that ends the API branch
RespondWithCallsNoReturn(r) ==
    (IF IsApi(r) THEN <<"api">> ELSE <<>>)
        \o (IF IsNavigation(r) THEN <<"nav">> ELSE <<"static">>)

\* the event.respondWith calls one run of the fetch listener makes, in
\* order: each if block calls it once and returns, the last call is
\* unconditional
RespondWithCalls(r) ==
    IF IsApi(r) THEN <<"api">>
    ELSE IF IsNavigation(r) THEN <<"nav">>
    ELSE <<"static">>

\* the branch of the fetch listener that calls respondWith
RequestClass(r) ==
    IF IsApi(r) THEN "api" ELSE IF IsNavigation(r) THEN "nav" ELSE "static"

\* cache.match(req): only GET requests match, by URL
CacheMatch(store, r) == IF r.method = "GET" THEN store[r.path] ELSE NoEntry

\* cache.put(req, resp): a put of a non-GET request is rejected
CanPut(r) == r.method = "GET"

IsFreshNoTtl(cachedTime, t) == cachedTime <= t
IsFreshStrict(cachedTime, t) == t - cachedTime < API_CACHE_TTL

\* Date.now() - cachedTime <= API_CACHE_TTL; a comparison with NaN is false
IsFresh(cachedTime, t) == cachedTime # NaN /\ t - cachedTime <= API_CACHE_TTL

StaleKeysNoApi(keys) == { k \in keys : k \notin { PRECACHE, RUNTIME } }

\* keys.filter(k => ![PRECACHE, RUNTIME, API_CACHE].includes(k))
StaleKeys(keys) == { k \in keys : k \notin { PRECACHE, RUNTIME, API_CACHE } }

StampedNoTime(response, t) == Resp(response.status, response.body, 0)

StampedNoBody(response, t) == Resp(response.status, 0, t)

\* cacheApiResponse: the copy of the response with the sw-cache-time header
Stamped(response, t) == Resp(response.status, response.body, t)

ApiFallbackAnyEntry(cached, t) ==
    IF cached # NoEntry THEN "cached" ELSE "synth"

\* the API branch's catch block once cache.match has answered
ApiFallback(cached, t) ==
    IF cached # NoEntry /\ IsFresh(cached.time, t) THEN "cached" ELSE "synth"

IdleSlot ==
    [pc |-> "idle", req |-> NoRequest, resp |-> NoEntry, newResp |-> NoEntry,
     cached |-> NoEntry, err |-> "", netFailed |-> FALSE, storeFailed |-> FALSE,
     put |-> "none", at |-> 0, calls |-> <<>>, result |-> NoResult]

\* the handler of slot i moves on / finishes with result res
Goto(i, pc, upd) == reqs' = [reqs EXCEPT ![i] = [upd EXCEPT !.pc = pc]]
Finish(i, upd, res) ==
    reqs' = [reqs EXCEPT ![i] = [upd EXCEPT !.pc = "done", !.result = res, !.at = now,
                                             !.resp = NoEntry, !.newResp = NoEntry]]

\* ------------------------------------------- service-worker.js helpers
\* the API URL /api/weather?city=<n> is the key n of RUNTIME_CACHE_NAME
\* at: when the entry was stored (the worker keeps no such stamp)
Entry1(n, r, t) == [key |-> n, resp |-> r, at |-> t]

\* the runtime cache after k earlier API responses were stored
Filled(k) == [j \in 1..k |-> Entry1(j, InstalledAsset, StartTime)]
InitialFill == { 0, maxEntries }

\* the API URLs the pages ask for: a cached one and new ones
Cities == { 1 } \cup { maxEntries + j : j \in 1..MaxNewKeys }

\* cache.keys(): the requests of the entries, in insertion order
Keys1(rt) == [j \in 1..Len(rt) |-> rt[j].key]

\* cache.match(request) on RUNTIME_CACHE_NAME
Match1(rt, n) ==
    IF \E j \in 1..Len(rt) : rt[j].key = n
      THEN rt[CHOOSE j \in 1..Len(rt) : rt[j].key = n].resp
      ELSE NoEntry

\* cache.delete(request)
Delete1(rt, n) == SelectSeq(rt, LAMBDA e : e.key # n)

\* cache.put(request, response): the entry replaces an entry of the same
\* request and is the newest one
Put1(rt, n, r, t) == Append(Delete1(rt, n), Entry1(n, r, t))

\* when the entry cache.match(request) finds was stored
MatchAt1(rt, n) ==
    IF \E j \in 1..Len(rt) : rt[j].key = n
      THEN rt[CHOOSE j \in 1..Len(rt) : rt[j].key = n].at
      ELSE 0

\* RUNTIME_CACHE_CONFIG.maxAgeSeconds
maxAgeSeconds == 300

OFFLINE_PAGE == <<"static", "_offline.html">>
Icon == <<"static", "icons", "icon-192x192.png">>

\* caches.match(request): the request is looked up in every store; page
\* and asset URLs are only ever stored in STATIC_CACHE_NAME
CachesMatch1(st, p) ==
    IF p \in st THEN FromCache(STATIC_CACHE_NAME, p, InstalledAsset) ELSE Undefined

\* a || b on two promises: a promise is an object, hence truthy, and b is
\* never evaluated
PromiseOr(a, b) == a

\* the fallback SVG cacheFirstStrategy answers for a failed image
FallbackSvg == Result("svg", "", Root, Resp(200, 0, 0), "")

STATIC_ASSETS ==
    { Root, <<"static", "css", "styles.css">>, <<"static", "js", "main.js">>,
      <<"static", "manifest.json">>, <<"cdn", "bootstrap.min.css">>,
      <<"cdn", "bootstrap.bundle.min.js">> }

IdleSlot1 ==
    [pc |-> "idle", cls |-> "", city |-> 0, path |-> Root, image |-> FALSE,
     resp |-> NoEntry, requests |-> <<>>, i |-> 0, deleteCount |-> 0,
     netFailed |-> FALSE, cachedAt |-> 0, at |-> 0,
     put |-> "none", result |-> NoResult]

Goto1(i, pc, upd) == reqs1' = [reqs1 EXCEPT ![i] = [upd EXCEPT !.pc = pc]]
Finish1(i, upd, res) ==
    reqs1' = [reqs1 EXCEPT ![i] = [upd EXCEPT !.pc = "done", !.result = res,
                                               !.at = now,
                                               !.requests = <<>>, !.i = 0,
                                               !.deleteCount = 0]]

\* ----------------------------------------------- server response cache
SrvKeys == 1..(capacity + 1)        \* normalized cache keys
UpstreamErrors == { "timeout", "not_found" }
CallerIds == 1..MaxCallers

\* a CacheEntry
CacheEntry(k, v, e) == [key |-> k, value |-> v, expires_at |-> e]

\* the payload the weather provider answers with: the observation of the
\* time of the call
Observation(t) == t + 1

\* what get_or_fetch gives its caller: (value, error)
Value(v) == [ok |-> TRUE, value |-> v, error |-> ""]

FailureWrapped(e) == [ok |-> FALSE, value |-> 0, error |-> "cache_error"]

Failure(e) == [ok |-> FALSE, value |-> 0, error |-> e]

NoValue == [ok |-> FALSE, value |-> 0, error |-> ""]

\* a call of get_or_fetch that has not returned
IdleCaller == [pc |-> "idle", key |-> 0]

\* a return of get_or_fetch: kind "hit" (entry returned) or "fetched"
\* (fetch_fn was invoked by caller); waiters: the callers that awaited the
\* same fetch; raised: the error fetch_fn raised; evicted: the key the
\* insert removed (0: none); at: the time of the return
Returned(kind, c, w, k, res, raised, out, t) ==
    [kind |-> kind, caller |-> c, waiters |-> w, key |-> k, result |-> res,
     raised |-> raised, evicted |-> out, at |-> t]

NoReturn == Returned("none", 0, {}, 0, NoValue, "", 0, 0)

IsLiveAlways(e, t) == TRUE

\* an entry is live until now > expires_at
IsLive(e, t) == t <= e.expires_at

\* size()
Size(c) == Len(c)

Has(c, k) == \E j \in 1..Len(c) : c[j].key = k
Get(c, k) == c[CHOOSE j \in 1..Len(c) : c[j].key = k]
RemoveKey(c, k) == SelectSeq(c, LAMBDA e : e.key # k)

TouchNot(c, k) == c

\* a read refreshes the recency marker of the entry: it becomes the most
\* recently used one; the entry itself is unchanged
Touch(c, k) == Append(RemoveKey(c, k), Get(c, k))

EvictNever(c) == c

\* when an insert would exceed capacity the least recently used entry goes
Evict(c) == IF Len(c) >= capacity THEN Tail(c) ELSE c

\* store the result of fetch_fn with a fresh expires_at
Insert(c, k, v, t) ==
    Append(Evict(RemoveKey(c, k)), CacheEntry(k, v, t + ttl_seconds))

InFlightNever(inf, k) == FALSE

\* the in-flight map holds the key
InFlight(inf, k) == k \in inf

\* --------------------------------------------------------- normalization
Letters == { "a", "b" }
Capitals == { "A", "B" }
Space == " "
Delimiter == ","

\* str.lower() and str.upper() on one character
LowerChar(ch) == IF ch = "A" THEN "a" ELSE IF ch = "B" THEN "b" ELSE ch
UpperChar(ch) == IF ch = "a" THEN "A" ELSE IF ch = "b" THEN "B" ELSE ch

\* lower-case a component
Lower(str) == [j \in 1..Len(str) |-> LowerChar(str[j])]

RECURSIVE LStrip(_)
LStrip(str) ==
    IF str # <<>> /\ Head(str) = Space THEN LStrip(Tail(str)) ELSE str

RECURSIVE RStrip(_)
RStrip(str) ==
    IF str # <<>> /\ str[Len(str)] = Space
      THEN RStrip(SubSeq(str, 1, Len(str) - 1))
      ELSE str

TrimLeft(str) == LStrip(str)

\* trim the whitespace around a component
Trim(str) == RStrip(LStrip(str))

\* normalize(city, state, country): components trimmed, lower-cased and
\* joined with the delimiter
normalize(city, state, country) ==
    Lower(Trim(city)) \o <<Delimiter>> \o Lower(Trim(state))
        \o <<Delimiter>> \o Lower(Trim(country))

Query(city, state, country) == [city |-> city, state |-> state, country |-> country]
Components == { "city", "state", "country" }

\* queries as a user would first write them
BaseQueries ==
    { Query(c, st, <<"b">>) : c \in { <<"a", "b">>, <<"a", Space, "b">>, <<"b">> },
                              st \in { <<>>, <<"a">> } }

KeyOf(q) == normalize(q.city, q.state, q.country)

\* ------------------------------------------------ main.js: page script
DEFAULT_UNIT == "imperial"
Units == { "imperial", "metric" }
StoredUnits == { "" } \cup Units    \* "" : UNIT_KEY was never set

\* currentUnit(): localStorage.getItem(UNIT_KEY) || DEFAULT_UNIT
currentUnit(stored) == IF stored = "" THEN DEFAULT_UNIT ELSE stored

\* convert: Math.round((v - 32) * 5 / 9), halves rounded up
convert(v) == (10 * (v - 32) + 9) \div 18

\* what /api/cities answers with: one item per default city, a reading or
\* an error; the readings of two answers differ in every city
DefaultCities == << "a", "b" >>
Fahrenheit(b, j) == 18 * b + 9 * j
Item(c, t, e) == [city |-> c, temperature |-> t, error |-> e]
Answer(b, bad) ==
    [j \in 1..Len(DefaultCities) |->
        IF j \in bad THEN Item(DefaultCities[j], 0, "not found")
                     ELSE Item(DefaultCities[j], Fahrenheit(b, j), "")]
CitiesAnswers == { Answer(b, bad) : b \in Bodies, bad \in SUBSET (1..Len(DefaultCities)) }

\* children of #citiesGrid
Element(k, c, t, e) == [kind |-> k, city |-> c, temperature |-> t, error |-> e]
Skeleton == Element("skeleton", "", 0, "")
Alert == Element("alert", "", 0, "Unable to load cities")
skeletonCount == 6
Skeletons == [j \in 1..skeletonCount |-> Skeleton]

\* toMetricIfNeeded(item), for the unit read after the answer was parsed
toMetricIfNeeded(item, unit) ==
    IF item.error # "" THEN item
    ELSE IF unit = "metric" THEN [item EXCEPT !.temperature = convert(@)]
    ELSE item

\* data.forEach: an error card or a city card for every item, in order
Cards(data, unit) ==
    [j \in 1..Len(data) |->
        IF data[j].error # ""
            THEN Element("error", data[j].city, 0, data[j].error)
            ELSE LET w == toMetricIfNeeded(data[j], unit)
                 IN Element("card", w.city, w.temperature, "")]

\* the grid is emptied, then the cards are appended
RenderCitiesAppending(grid, data, unit) == grid \o Cards(data, unit)

RenderCities(grid, data, unit) == Cards(data, unit)

CallIds == 1..MaxCalls
IdleCall == [pc |-> "idle", trigger |-> "", data |-> <<>>]

CitiesAtRest ==
    /\ citiesGrid = <<>>
    /\ cityCalls = [c \in CallIds |-> IdleCall]
    /\ refreshDisabled = FALSE
    /\ citiesFailed = FALSE
    /\ citiesOverlap = FALSE

\* the location button
ClickIds == 1..MaxClicks
Button(d, l) == [disabled |-> d, loading |-> l]
Coords == { 1, 2 }
NoDetails == [city |-> "", temperature |-> 0]
IdleClick == [pc |-> "idle", coords |-> 0, ok |-> FALSE, body |-> 0]
GeoErrors == { "unsupported", "denied", "unavailable", "timeout" }
LocateErrors == GeoErrors \cup { "weather" }

LocateAtRest ==
    /\ locationBtn = Button(FALSE, FALSE)
    /\ locating = [h \in ClickIds |-> IdleClick]
    /\ locLast = "none"
    /\ details = NoDetails

\* favourites
NoToggle == [key |-> "", returned |-> FALSE]

\* the (city, country) pairs of the cards a user can star; the second and
\* the third have the same key
Places == { << "a", "c" >>, << "a", "b,c" >>, << "a,b", "c" >>, << "b", "c" >>, << "b", "d" >> }

\* `${city},${country}`
FavKey(city, country) == city \o "," \o country

\* favorites.findIndex(f => f.key === key)
findIndex(favs, key) ==
    IF \E j \in 1..Len(favs) : favs[j].key = key
        THEN CHOOSE j \in 1..Len(favs) :
                /\ favs[j].key = key
                /\ \A i \in 1..(j - 1) : favs[i].key # key
        ELSE -1

\* favorites.splice(index, 1)
splice(favs, index) == [j \in 1..(Len(favs) - 1) |-> IF j < index THEN favs[j] ELSE favs[j + 1]]

\* the list toggleFavorite saves: without the entry found, or with a new one
ToggledAlwaysPush(favs, index, entry) == Append(favs, entry)

Toggled(favs, index, entry) ==
    IF index > -1 THEN splice(favs, index) ELSE Append(favs, entry)

\* isFavorite: favorites.some(f => f.key === key)
isFavorite(favs, city, country) == \E j \in 1..Len(favs) : favs[j].key = FavKey(city, country)

FavAtRest ==
    /\ favorites = <<>>
    /\ favLast = NoToggle

PageInit ==
    /\ unitStored = ""
    /\ CitiesAtRest
    /\ LocateAtRest
    /\ FavAtRest

\* ------------------------------------------------------------------ Init
SrvInit ==
    /\ clock = 0
    /\ cache = <<>>
    /\ inflight = {}
    /\ callers = [c \in CallerIds |-> IdleCaller]
    /\ last = NoReturn

NormInit ==
    /\ query \in BaseQueries
    /\ nkey = KeyOf(query)
    /\ nkey0 = nkey

PwaInit ==
    /\ now = StartTime
    /\ stores \in InitialStores
    /\ precache = EmptyStore
    /\ runtime = EmptyStore
    /\ apiCache = EmptyStore
    /\ sw = "parsed"
    /\ actKeys = {}
    /\ assetFail = FALSE
    /\ reqs = [i \in ReqIds |-> IdleSlot]
    /\ sw1 = "parsed"
    /\ act1Keys = {}
    /\ static1 = {}
    /\ runtime1 \in IF RUNTIME_CACHE_NAME \in stores
                      THEN { Filled(k) : k \in InitialFill }
                      ELSE { <<>> }
    /\ reqs1 = [i \in ReqIds |-> IdleSlot1]

\* the workers start; the server and the search form are at rest
Init ==
    /\ PwaInit
    /\ SrvInit
    /\ NormInit
    /\ query = Query(<<"a", "b">>, <<>>, <<"b">>)
    /\ PageInit

\* the server starts; no worker is running
CacheInit ==
    /\ PwaInit
    /\ stores = {}
    /\ SrvInit
    /\ NormInit
    /\ query = Query(<<"a", "b">>, <<>>, <<"b">>)
    /\ PageInit

\* a query is typed; nothing else is running
QueryInit ==
    /\ PwaInit
    /\ stores = {}
    /\ SrvInit
    /\ NormInit
    /\ PageInit

\* the page is opened: the unit may have been chosen on an earlier visit
PageOpens ==
    /\ PwaInit
    /\ stores = {}
    /\ SrvInit
    /\ NormInit
    /\ query = Query(<<"a", "b">>, <<>>, <<"b">>)
    /\ unitStored \in StoredUnits
    /\ CitiesAtRest
    /\ LocateAtRest
    /\ FavAtRest

\* the clock moves on
Tick ==
    /\ \E t \in TimePoints : t > now /\ now' = t
    /\ UNCHANGED <<stores, precache, runtime, apiCache, sw, actKeys, assetFail, reqs, sw1Vars, appVars>>

\* --------------------------------------------------------------- install
\* install listener: caches.open(PRECACHE) is called
InstallEvent ==
    /\ sw = "parsed"
    /\ sw' = "install_open"
    /\ UNCHANGED <<now, stores, precache, runtime, apiCache, actKeys, assetFail, reqs, sw1Vars, appVars>>

\* caches.open(PRECACHE) settles
InstallOpen ==
    /\ sw = "install_open"
    /\ \E ok \in BOOLEAN :
          IF ok THEN /\ stores' = stores \cup { PRECACHE }
                     /\ sw' = "install_addAll"
                ELSE /\ sw' = "redundant"
                     /\ UNCHANGED stores
    /\ UNCHANGED <<now, precache, runtime, apiCache, actKeys, assetFail, reqs, sw1Vars, appVars>>

\* cache.addAll(PRECACHE_URLS) settles: all assets are stored, or one of
\* them cannot be fetched, nothing is stored and the promise given to
\* waitUntil rejects
InstallAddAll ==
    /\ sw = "install_addAll"
    /\ \E failed \in BOOLEAN :
          IF failed
            THEN /\ assetFail' = TRUE
                 /\ sw' = "redundant"
                 /\ UNCHANGED precache
            ELSE /\ precache' = [p \in Paths |->
                        IF p \in PRECACHE_URLS THEN InstalledAsset ELSE precache[p]]
                 /\ sw' = "installed"
                 /\ UNCHANGED assetFail
    /\ UNCHANGED <<now, stores, runtime, apiCache, actKeys, reqs, sw1Vars, appVars>>

\* -------------------------------------------------------------- activate
\* const keys = await caches.keys()
ActivateKeys ==
    /\ sw = "installed"
    /\ actKeys' = stores
    /\ sw' = "activate_delete"
    /\ UNCHANGED <<now, stores, precache, runtime, apiCache, assetFail, reqs, sw1Vars, appVars>>

ActivateDeleteNotAwaited ==
    /\ sw = "activate_delete"
    /\ sw' = "activate_claim"
    /\ UNCHANGED <<now, stores, precache, runtime, apiCache, actKeys, assetFail, reqs,
                   sw1Vars, appVars>>

\* await Promise.all(keys.filter(...).map(k => caches.delete(k))); a
\* deleted store is gone with its entries
ActivateDelete ==
    /\ sw = "activate_delete"
    /\ stores' = stores \ StaleKeys(actKeys)
    /\ static1' = IF STATIC_CACHE_NAME \in StaleKeys(actKeys) THEN {} ELSE static1
    /\ runtime1' = IF RUNTIME_CACHE_NAME \in StaleKeys(actKeys) THEN <<>> ELSE runtime1
    /\ sw' = "activate_claim"
    /\ UNCHANGED <<now, precache, runtime, apiCache, actKeys, assetFail, reqs,
                   sw1, act1Keys, reqs1, appVars>>

\* await self.clients.claim()
ActivateClaim ==
    /\ sw = "activate_claim"
    /\ sw' = "activated"
    /\ UNCHANGED <<now, stores, precache, runtime, apiCache, actKeys, assetFail, reqs, sw1Vars, appVars>>

\* ----------------------------------------------------------------- fetch
\* fetch listener: the branch is chosen and fetch(req) is started
FetchEventFrom(i, R) ==
    /\ sw = "activated"
    /\ reqs[i].pc = "idle"
    /\ \E r \in R :
          Goto(i, RequestClass(r) \o "_fetch",
               [IdleSlot EXCEPT !.req = r, !.calls = RespondWithCalls(r)])
    /\ UNCHANGED <<now, stores, precache, runtime, apiCache, sw, actKeys, assetFail, sw1Vars, appVars>>

FetchEvent(i) == FetchEventFrom(i, Requests)

\* the listener runs for a request of any shape
DispatchEvent(i) == FetchEventFrom(i, AllRequests)

\* API branch: await fetch(req)
ApiFetch(i) ==
    /\ reqs[i].pc = "api_fetch"
    /\ \/ Goto(i, "api_catch_open",
               [reqs[i] EXCEPT !.netFailed = TRUE, !.err = "network"])
       \/ \E r \in NetResponses :
             IF IsOk(r) THEN Goto(i, "api_blob", [reqs[i] EXCEPT !.resp = r])
                        ELSE Finish(i, [reqs[i] EXCEPT !.resp = r], FromNetwork(r))
    /\ UNCHANGED <<now, stores, precache, runtime, apiCache, sw, actKeys, assetFail, sw1Vars, appVars>>

\* cacheApiResponse: await cloned.blob(), then the copy is built with
\* sw-cache-time = Date.now() and caches.open(API_CACHE) is called
ApiBlob(i) ==
    /\ reqs[i].pc = "api_blob"
    /\ Goto(i, "api_open", [reqs[i] EXCEPT !.newResp = Stamped(reqs[i].resp, now)])
    /\ UNCHANGED <<now, stores, precache, runtime, apiCache, sw, actKeys, assetFail, sw1Vars, appVars>>

ApiOpenThrows(i) ==
    /\ reqs[i].pc = "api_open"
    /\ \E ok \in BOOLEAN :
          IF ok THEN /\ stores' = stores \cup { API_CACHE }
                     /\ Goto(i, "api_put", reqs[i])
                ELSE /\ UNCHANGED stores
                     /\ Finish(i, [reqs[i] EXCEPT !.storeFailed = TRUE], Rejected("store"))
    /\ UNCHANGED <<now, precache, runtime, apiCache, sw, actKeys, assetFail, sw1Vars, appVars>>

\* cacheApiResponse: await caches.open(API_CACHE); a failure is swallowed
\* by the caller, which returns networkResponse
ApiOpen(i) ==
    /\ reqs[i].pc = "api_open"
    /\ \E ok \in BOOLEAN :
          IF ok THEN /\ stores' = stores \cup { API_CACHE }
                     /\ Goto(i, "api_put", reqs[i])
                ELSE /\ UNCHANGED stores
                     /\ Finish(i, [reqs[i] EXCEPT !.storeFailed = TRUE],
                               FromNetwork(reqs[i].resp))
    /\ UNCHANGED <<now, precache, runtime, apiCache, sw, actKeys, assetFail, sw1Vars, appVars>>

\* cacheApiResponse: await cache.put(request, newResp.clone())
ApiPut(i) ==
    /\ reqs[i].pc = "api_put"
    /\ \E ok \in BOOLEAN :
          IF ok /\ CanPut(reqs[i].req)
            THEN /\ apiCache' = [apiCache EXCEPT ![reqs[i].req.path] = reqs[i].newResp]
                 /\ Finish(i, reqs[i], FromNetwork(reqs[i].resp))
            ELSE /\ UNCHANGED apiCache
                 /\ Finish(i, [reqs[i] EXCEPT !.storeFailed = TRUE],
                           FromNetwork(reqs[i].resp))
    /\ UNCHANGED <<now, stores, precache, runtime, sw, actKeys, assetFail, sw1Vars, appVars>>

\* API branch, catch: await caches.open(API_CACHE)
ApiCatchOpen(i) ==
    /\ reqs[i].pc = "api_catch_open"
    /\ \E ok \in BOOLEAN :
          IF ok THEN /\ stores' = stores \cup { API_CACHE }
                     /\ Goto(i, "api_catch_match", reqs[i])
                ELSE /\ UNCHANGED stores
                     /\ Finish(i, [reqs[i] EXCEPT !.storeFailed = TRUE], Rejected("store"))
    /\ UNCHANGED <<now, precache, runtime, apiCache, sw, actKeys, assetFail, sw1Vars, appVars>>

ApiCatchMatchSweeping(i) ==
    /\ reqs[i].pc = "api_catch_match"
    /\ LET cached == CacheMatch(apiCache, reqs[i].req) IN
       /\ Finish(i, [reqs[i] EXCEPT !.cached = cached],
                 IF ApiFallback(cached, now) = "cached"
                   THEN FromCache(API_CACHE, reqs[i].req.path, cached)
                   ELSE Synth503)
       /\ apiCache' = IF ApiFallback(cached, now) = "cached"
                        THEN apiCache
                        ELSE [apiCache EXCEPT ![reqs[i].req.path] = NoEntry]
    /\ UNCHANGED <<now, stores, precache, runtime, sw, actKeys, assetFail, sw1Vars, appVars>>

\* API branch, catch: await cache.match(req), then the TTL test
ApiCatchMatch(i) ==
    /\ reqs[i].pc = "api_catch_match"
    /\ \E ok \in BOOLEAN :
          IF ok
            THEN LET cached == CacheMatch(apiCache, reqs[i].req) IN
                 Finish(i, [reqs[i] EXCEPT !.cached = cached],
                        IF ApiFallback(cached, now) = "cached"
                          THEN FromCache(API_CACHE, reqs[i].req.path, cached)
                          ELSE Synth503)
            ELSE Finish(i, [reqs[i] EXCEPT !.storeFailed = TRUE], Rejected("store"))
    /\ UNCHANGED <<now, stores, precache, runtime, apiCache, sw, actKeys, assetFail, sw1Vars, appVars>>

\* navigation branch: await fetch(req)
NavFetch(i) ==
    /\ reqs[i].pc = "nav_fetch"
    /\ \/ Goto(i, "nav_catch_open",
               [reqs[i] EXCEPT !.netFailed = TRUE, !.err = "network"])
       \/ \E r \in NetResponses :
             Goto(i, "nav_open", [reqs[i] EXCEPT !.resp = r])
    /\ UNCHANGED <<now, stores, precache, runtime, apiCache, sw, actKeys, assetFail, sw1Vars, appVars>>

\* navigation branch: await caches.open(RUNTIME) inside the try block, then
\* cache.put(req, networkResp.clone()) is started without await and
\* networkResp is returned; a failure of open enters the catch block
NavOpen(i) ==
    /\ reqs[i].pc = "nav_open"
    /\ \E ok \in BOOLEAN :
          IF ok THEN /\ stores' = stores \cup { RUNTIME }
                     /\ Finish(i, [reqs[i] EXCEPT !.put = "pending"],
                               FromNetwork(reqs[i].resp))
                ELSE /\ UNCHANGED stores
                     /\ Goto(i, "nav_catch_open",
                             [reqs[i] EXCEPT !.storeFailed = TRUE, !.err = "store"])
    /\ UNCHANGED <<now, precache, runtime, apiCache, sw, actKeys, assetFail, sw1Vars, appVars>>

\* navigation branch, catch: await caches.open(PRECACHE)
NavCatchOpen(i) ==
    /\ reqs[i].pc = "nav_catch_open"
    /\ \E ok \in BOOLEAN :
          IF ok THEN /\ stores' = stores \cup { PRECACHE }
                     /\ Goto(i, "nav_match_req", reqs[i])
                ELSE /\ UNCHANGED stores
                     /\ Finish(i, [reqs[i] EXCEPT !.storeFailed = TRUE], Rejected("store"))
    /\ UNCHANGED <<now, precache, runtime, apiCache, sw, actKeys, assetFail, sw1Vars, appVars>>

\* one tier of the navigation fallback: await cache.match(key) on PRECACHE;
\* a hit is returned, a miss goes on to the next tier, and the last tier
\* returns whatever match gave
NavTier(i, pc, key, next) ==
    /\ reqs[i].pc = pc
    /\ \E ok \in BOOLEAN :
          IF ok
            THEN LET cached == IF key = reqs[i].req.path
                                 THEN CacheMatch(precache, reqs[i].req)
                                 ELSE precache[key] IN
                 IF cached # NoEntry
                   THEN Finish(i, [reqs[i] EXCEPT !.cached = cached],
                               FromCache(PRECACHE, key, cached))
                   ELSE IF next = "done"
                          THEN Finish(i, reqs[i], Undefined)
                          ELSE Goto(i, next, reqs[i])
            ELSE Finish(i, [reqs[i] EXCEPT !.storeFailed = TRUE], Rejected("store"))
    /\ UNCHANGED <<now, stores, precache, runtime, apiCache, sw, actKeys, assetFail, sw1Vars, appVars>>

NavMatchReqRootFirst(i) == NavTier(i, "nav_match_req", Root, "nav_match_root")

\* const cached = await cache.match(req) || await cache.match('/')
NavMatchReq(i) == NavTier(i, "nav_match_req", reqs[i].req.path, "nav_match_root")
NavMatchRoot(i) == NavTier(i, "nav_match_root", Root, "nav_match_offline")
\* return await cache.match('/offline')
NavMatchOffline(i) == NavTier(i, "nav_match_offline", Offline, "done")

\* static branch: await fetch(req)
StaticFetch(i) ==
    /\ reqs[i].pc = "static_fetch"
    /\ \/ Goto(i, "static_catch_open",
               [reqs[i] EXCEPT !.netFailed = TRUE, !.err = "network"])
       \/ \E r \in NetResponses :
             IF IsOk(r) THEN Goto(i, "static_open", [reqs[i] EXCEPT !.resp = r])
                        ELSE Finish(i, [reqs[i] EXCEPT !.resp = r], FromNetwork(r))
    /\ UNCHANGED <<now, stores, precache, runtime, apiCache, sw, actKeys, assetFail, sw1Vars, appVars>>

\* static branch: await caches.open(RUNTIME) inside the try block, then
\* cache.put(req, resp.clone()) is started without await and resp is returned
StaticOpen(i) ==
    /\ reqs[i].pc = "static_open"
    /\ \E ok \in BOOLEAN :
          IF ok THEN /\ stores' = stores \cup { RUNTIME }
                     /\ Finish(i, [reqs[i] EXCEPT !.put = "pending"],
                               FromNetwork(reqs[i].resp))
                ELSE /\ UNCHANGED stores
                     /\ Goto(i, "static_catch_open",
                             [reqs[i] EXCEPT !.storeFailed = TRUE, !.err = "store"])
    /\ UNCHANGED <<now, precache, runtime, apiCache, sw, actKeys, assetFail, sw1Vars, appVars>>

\* static branch, catch: await caches.open(RUNTIME)
StaticCatchOpen(i) ==
    /\ reqs[i].pc = "static_catch_open"
    /\ \E ok \in BOOLEAN :
          IF ok THEN /\ stores' = stores \cup { RUNTIME }
                     /\ Goto(i, "static_match", reqs[i])
                ELSE /\ UNCHANGED stores
                     /\ Finish(i, [reqs[i] EXCEPT !.storeFailed = TRUE], Rejected("store"))
    /\ UNCHANGED <<now, precache, runtime, apiCache, sw, actKeys, assetFail, sw1Vars, appVars>>

\* static branch, catch: await cache.match(req); a miss rethrows err
StaticMatch(i) ==
    /\ reqs[i].pc = "static_match"
    /\ \E ok \in BOOLEAN :
          IF ok
            THEN LET cached == CacheMatch(runtime, reqs[i].req) IN
                 IF cached # NoEntry
                   THEN Finish(i, [reqs[i] EXCEPT !.cached = cached],
                               FromCache(RUNTIME, reqs[i].req.path, cached))
                   ELSE Finish(i, reqs[i], Rejected(reqs[i].err))
            ELSE Finish(i, [reqs[i] EXCEPT !.storeFailed = TRUE], Rejected("store"))
    /\ UNCHANGED <<now, stores, precache, runtime, apiCache, sw, actKeys, assetFail, sw1Vars, appVars>>

RuntimePutIntoPrecache(i) ==
    /\ reqs[i].put = "pending"
    /\ precache' = [precache EXCEPT ![reqs[i].req.path] = reqs[i].result.resp]
    /\ reqs' = [reqs EXCEPT ![i].put = "settled"]
    /\ UNCHANGED <<now, stores, runtime, apiCache, sw, actKeys, assetFail, sw1Vars, appVars>>

\* the cache.put on RUNTIME that a navigation or static handler started
\* without awaiting it settles: the whole response is stored, or the put
\* is rejected and nobody sees the rejection
RuntimePut(i) ==
    /\ reqs[i].put = "pending"
    /\ \E ok \in BOOLEAN :
          IF ok /\ CanPut(reqs[i].req)
            THEN runtime' = [runtime EXCEPT ![reqs[i].req.path] = reqs[i].result.resp]
            ELSE UNCHANGED runtime
    /\ reqs' = [reqs EXCEPT ![i].put = "settled"]
    /\ UNCHANGED <<now, stores, precache, apiCache, sw, actKeys, assetFail, sw1Vars, appVars>>

\* the page has consumed the response; the slot serves the next fetch event
Retire(i) ==
    /\ reqs[i].pc = "done"
    /\ reqs[i].put # "pending"
    /\ reqs' = [reqs EXCEPT ![i] = IdleSlot]
    /\ UNCHANGED <<now, stores, precache, runtime, apiCache, sw, actKeys, assetFail, sw1Vars, appVars>>

Next ==
    \/ Tick
    \/ InstallEvent
    \/ InstallOpen
    \/ InstallAddAll
    \/ ActivateKeys
    \/ ActivateDelete
    \/ ActivateClaim
    \/ \E i \in ReqIds : FetchEvent(i)
    \/ \E i \in ReqIds : ApiFetch(i)
    \/ \E i \in ReqIds : ApiBlob(i)
    \/ \E i \in ReqIds : ApiOpen(i)
    \/ \E i \in ReqIds : ApiPut(i)
    \/ \E i \in ReqIds : ApiCatchOpen(i)
    \/ \E i \in ReqIds : ApiCatchMatch(i)
    \/ \E i \in ReqIds : NavFetch(i)
    \/ \E i \in ReqIds : NavOpen(i)
    \/ \E i \in ReqIds : NavCatchOpen(i)
    \/ \E i \in ReqIds : NavMatchReq(i)
    \/ \E i \in ReqIds : NavMatchRoot(i)
    \/ \E i \in ReqIds : NavMatchOffline(i)
    \/ \E i \in ReqIds : StaticFetch(i)
    \/ \E i \in ReqIds : StaticOpen(i)
    \/ \E i \in ReqIds : StaticCatchOpen(i)
    \/ \E i \in ReqIds : StaticMatch(i)
    \/ \E i \in ReqIds : RuntimePut(i)
    \/ \E i \in ReqIds : Retire(i)

Spec == Init /\ [][Next]_vars

\* the worker when the pages send requests of one class only
Lifecycle ==
    \/ InstallEvent
    \/ InstallOpen
    \/ InstallAddAll
    \/ ActivateKeys
    \/ ActivateDelete
    \/ ActivateClaim

FetchApi(i) == FetchEvent(i) /\ reqs'[i].pc = "api_fetch"
FetchNav(i) == FetchEvent(i) /\ reqs'[i].pc = "nav_fetch"
FetchStatic(i) == FetchEvent(i) /\ reqs'[i].pc = "static_fetch"

\* the worker's lifecycle and the synchronous part of the fetch listener
NextDispatch ==
    \/ Lifecycle
    \/ \E i \in ReqIds : DispatchEvent(i)

SpecDispatch == Init /\ [][NextDispatch]_vars

NextApi ==
    \/ Tick
    \/ Lifecycle
    \/ \E i \in ReqIds : FetchApi(i)
    \/ \E i \in ReqIds : ApiFetch(i)
    \/ \E i \in ReqIds : ApiBlob(i)
    \/ \E i \in ReqIds : ApiOpen(i)
    \/ \E i \in ReqIds : ApiPut(i)
    \/ \E i \in ReqIds : ApiCatchOpen(i)
    \/ \E i \in ReqIds : ApiCatchMatch(i)
    \/ \E i \in ReqIds : Retire(i)

SpecApi == Init /\ [][NextApi]_vars

\* api-cache as an earlier run of the page's origin may have left it: an
\* entry can lack the sw-cache-time header or carry one that is no number
LeftEntries == { NoEntry, Resp(200, 1, 0), Resp(200, 1, NaN) }

StoredInit ==
    /\ now = StartTime
    /\ stores \in { {}, CurrentNames }
    /\ precache = EmptyStore
    /\ runtime = EmptyStore
    /\ apiCache \in IF API_CACHE \in stores
                      THEN { [EmptyStore EXCEPT ![ApiWeather] = e] : e \in LeftEntries }
                      ELSE { EmptyStore }
    /\ sw = "parsed"
    /\ actKeys = {}
    /\ assetFail = FALSE
    /\ reqs = [i \in ReqIds |-> IdleSlot]
    /\ sw1 = "parsed"
    /\ act1Keys = {}
    /\ static1 = {}
    /\ runtime1 = <<>>
    /\ reqs1 = [i \in ReqIds |-> IdleSlot1]
    /\ SrvInit
    /\ NormInit
    /\ query = Query(<<"a", "b">>, <<>>, <<"b">>)
    /\ PageInit

\* API requests only
NextApiStored ==
    \/ Tick
    \/ Lifecycle
    \/ \E i \in ReqIds : FetchApi(i)
    \/ \E i \in ReqIds : ApiFetch(i)
    \/ \E i \in ReqIds : ApiBlob(i)
    \/ \E i \in ReqIds : ApiOpen(i)
    \/ \E i \in ReqIds : ApiPut(i)
    \/ \E i \in ReqIds : ApiCatchOpen(i)
    \/ \E i \in ReqIds : ApiCatchMatch(i)
    \/ \E i \in ReqIds : Retire(i)

SpecApiStored == StoredInit /\ [][NextApiStored]_vars

\* requests of every class, at one instant
NextFetch ==
    \/ Lifecycle
    \/ \E i \in ReqIds : FetchEvent(i)
    \/ \E i \in ReqIds : ApiFetch(i)
    \/ \E i \in ReqIds : ApiBlob(i)
    \/ \E i \in ReqIds : ApiOpen(i)
    \/ \E i \in ReqIds : ApiPut(i)
    \/ \E i \in ReqIds : ApiCatchOpen(i)
    \/ \E i \in ReqIds : ApiCatchMatch(i)
    \/ \E i \in ReqIds : NavFetch(i)
    \/ \E i \in ReqIds : NavOpen(i)
    \/ \E i \in ReqIds : NavCatchOpen(i)
    \/ \E i \in ReqIds : NavMatchReq(i)
    \/ \E i \in ReqIds : NavMatchRoot(i)
    \/ \E i \in ReqIds : NavMatchOffline(i)
    \/ \E i \in ReqIds : StaticFetch(i)
    \/ \E i \in ReqIds : StaticOpen(i)
    \/ \E i \in ReqIds : StaticCatchOpen(i)
    \/ \E i \in ReqIds : StaticMatch(i)
    \/ \E i \in ReqIds : RuntimePut(i)
    \/ \E i \in ReqIds : Retire(i)

\* the worker is installed for the first time: no store exists
FirstInit ==
    /\ Init
    /\ stores = {}

SpecFetch == FirstInit /\ [][NextFetch]_vars

NextNav ==
    \/ Lifecycle
    \/ \E i \in ReqIds : FetchNav(i)
    \/ \E i \in ReqIds : NavFetch(i)
    \/ \E i \in ReqIds : NavOpen(i)
    \/ \E i \in ReqIds : NavCatchOpen(i)
    \/ \E i \in ReqIds : NavMatchReq(i)
    \/ \E i \in ReqIds : NavMatchRoot(i)
    \/ \E i \in ReqIds : NavMatchOffline(i)
    \/ \E i \in ReqIds : RuntimePut(i)
    \/ \E i \in ReqIds : Retire(i)

SpecNav == Init /\ [][NextNav]_vars

\* ======================================================= service-worker.js
\* install listener: caches.open(STATIC_CACHE_NAME) is called
SW1InstallEvent ==
    /\ sw1 = "parsed"
    /\ sw1' = "install_open"
    /\ UNCHANGED <<now, stores, swVars, appVars, act1Keys, static1, runtime1, reqs1>>

\* caches.open(STATIC_CACHE_NAME) resolves
SW1InstallOpen ==
    /\ sw1 = "install_open"
    /\ stores' = stores \cup { STATIC_CACHE_NAME }
    /\ sw1' = "install_addAll"
    /\ UNCHANGED <<now, swVars, appVars, act1Keys, static1, runtime1, reqs1>>

\* cache.addAll(STATIC_ASSETS).catch(...) settles, then skipWaiting: a
\* failed asset is logged and the chain goes on
SW1InstallAddAll ==
    /\ sw1 = "install_addAll"
    /\ \E failed \in BOOLEAN :
          static1' = IF failed THEN static1 ELSE static1 \cup STATIC_ASSETS
    /\ sw1' = "installed"
    /\ UNCHANGED <<now, stores, swVars, appVars, act1Keys, runtime1, reqs1>>

\* caches.keys()
SW1ActivateKeys ==
    /\ sw1 = "installed"
    /\ act1Keys' = stores
    /\ sw1' = "activate_delete"
    /\ UNCHANGED <<now, stores, swVars, appVars, static1, runtime1, reqs1>>

\* the cacheNames the activate listener of service-worker.js deletes
OldCaches1(cacheNames) ==
    { cacheName \in cacheNames :
        cacheName # STATIC_CACHE_NAME /\ cacheName # RUNTIME_CACHE_NAME }

\* Promise.all(cacheNames.map(...)): every name that is neither
\* STATIC_CACHE_NAME nor RUNTIME_CACHE_NAME is deleted with its entries
SW1ActivateDelete ==
    /\ sw1 = "activate_delete"
    /\ stores' = stores \ OldCaches1(act1Keys)
    /\ precache' = IF PRECACHE \in OldCaches1(act1Keys) THEN EmptyStore ELSE precache
    /\ runtime' = IF RUNTIME \in OldCaches1(act1Keys) THEN EmptyStore ELSE runtime
    /\ apiCache' = IF API_CACHE \in OldCaches1(act1Keys) THEN EmptyStore ELSE apiCache
    /\ sw1' = "activate_claim"
    /\ UNCHANGED <<now, sw, actKeys, assetFail, reqs, act1Keys, static1, runtime1, reqs1,
                   appVars>>

\* self.clients.claim()
SW1ActivateClaim ==
    /\ sw1 = "activate_claim"
    /\ sw1' = "activated"
    /\ UNCHANGED <<now, stores, swVars, appVars, act1Keys, static1, runtime1, reqs1>>

\* fetch listener, GET /api/...: networkFirstStrategy(request) is called
\* and awaits caches.open(RUNTIME_CACHE_NAME)
SW1FetchEvent(i) ==
    /\ sw1 = "activated"
    /\ reqs1[i].pc = "idle"
    /\ \E n \in Cities : Goto1(i, "nf_open", [IdleSlot1 EXCEPT !.city = n, !.cls = "api"])
    /\ UNCHANGED <<now, stores, swVars, appVars, sw1, act1Keys, static1, runtime1>>

\* networkFirstStrategy: const cache = await caches.open(RUNTIME_CACHE_NAME)
NFOpen(i) ==
    /\ reqs1[i].pc = "nf_open"
    /\ stores' = stores \cup { RUNTIME_CACHE_NAME }
    /\ Goto1(i, "nf_fetch", reqs1[i])
    /\ UNCHANGED <<now, swVars, appVars, sw1, act1Keys, static1, runtime1>>

\* networkFirstStrategy: await fetch(request); a 200 starts cache.put
\* without await and calls cleanupRuntimeCache
NFFetch(i) ==
    /\ reqs1[i].pc = "nf_fetch"
    /\ \/ Goto1(i, "nf_match", [reqs1[i] EXCEPT !.netFailed = TRUE])
       \/ \E r \in NetResponses :
             IF r.status = 200
               THEN Goto1(i, "cleanup_open", [reqs1[i] EXCEPT !.resp = r, !.put = "pending"])
               ELSE Finish1(i, reqs1[i], FromNetwork(r))
    /\ UNCHANGED <<now, stores, swVars, appVars, sw1, act1Keys, static1, runtime1>>

\* networkFirstStrategy, catch: await cache.match(request)
NFMatch(i) ==
    /\ reqs1[i].pc = "nf_match"
    /\ LET cachedResponse == Match1(runtime1, reqs1[i].city) IN
       Finish1(i, [reqs1[i] EXCEPT !.cachedAt = MatchAt1(runtime1, reqs1[i].city)],
               IF cachedResponse # NoEntry
                 THEN FromCache(RUNTIME_CACHE_NAME, Root, cachedResponse)
                 ELSE Synth503)
    /\ UNCHANGED <<now, stores, swVars, appVars, sw1, act1Keys, static1, runtime1>>

\* cleanupRuntimeCache: const cache = await caches.open(RUNTIME_CACHE_NAME)
CleanupOpen(i) ==
    /\ reqs1[i].pc = "cleanup_open"
    /\ stores' = stores \cup { RUNTIME_CACHE_NAME }
    /\ Goto1(i, "cleanup_keys", reqs1[i])
    /\ UNCHANGED <<now, swVars, appVars, sw1, act1Keys, static1, runtime1>>

\* cleanupRuntimeCache: const requests = await cache.keys(), then the test
\* requests.length > maxEntries
CleanupKeys(i) ==
    /\ reqs1[i].pc = "cleanup_keys"
    /\ LET requests == Keys1(runtime1) IN
       IF Len(requests) > maxEntries
         THEN Goto1(i, "cleanup_delete",
                    [reqs1[i] EXCEPT !.requests = requests, !.i = 0,
                                     !.deleteCount = Len(requests) - maxEntries])
         ELSE Finish1(i, reqs1[i], FromNetwork(reqs1[i].resp))
    /\ UNCHANGED <<now, stores, swVars, appVars, sw1, act1Keys, static1, runtime1>>

\* cleanupRuntimeCache: await cache.delete(requests[i]); i++
CleanupDelete(i) ==
    /\ reqs1[i].pc = "cleanup_delete"
    /\ runtime1' = Delete1(runtime1, reqs1[i].requests[reqs1[i].i + 1])
    /\ IF reqs1[i].i + 1 < reqs1[i].deleteCount
         THEN Goto1(i, "cleanup_delete", [reqs1[i] EXCEPT !.i = @ + 1])
         ELSE Finish1(i, reqs1[i], FromNetwork(reqs1[i].resp))
    /\ UNCHANGED <<now, stores, swVars, appVars, sw1, act1Keys, static1>>

\* the cache.put that networkFirstStrategy started without await stores
\* the response; nothing orders it with the cache.keys() of the clean-up
RuntimePut1(i) ==
    /\ reqs1[i].put = "pending"
    /\ runtime1' = Put1(runtime1, reqs1[i].city, reqs1[i].resp, now)
    /\ reqs1' = [reqs1 EXCEPT ![i].put = "settled"]
    /\ UNCHANGED <<now, stores, swVars, appVars, sw1, act1Keys, static1>>

\* the page has consumed the response
Retire1(i) ==
    /\ reqs1[i].pc = "done"
    /\ reqs1[i].put \notin { "pending", "pending_static" }
    /\ reqs1' = [reqs1 EXCEPT ![i] = IdleSlot1]
    /\ UNCHANGED <<now, stores, swVars, appVars, sw1, act1Keys, static1, runtime1>>

NextSW1 ==
    \/ SW1InstallEvent
    \/ SW1InstallOpen
    \/ SW1InstallAddAll
    \/ SW1ActivateKeys
    \/ SW1ActivateDelete
    \/ SW1ActivateClaim
    \/ \E i \in ReqIds : SW1FetchEvent(i)
    \/ \E i \in ReqIds : NFOpen(i)
    \/ \E i \in ReqIds : NFFetch(i)
    \/ \E i \in ReqIds : NFMatch(i)
    \/ \E i \in ReqIds : CleanupOpen(i)
    \/ \E i \in ReqIds : CleanupKeys(i)
    \/ \E i \in ReqIds : CleanupDelete(i)
    \/ \E i \in ReqIds : RuntimePut1(i)
    \/ \E i \in ReqIds : Retire1(i)

SpecSW1 == Init /\ [][NextSW1]_vars

\* the same worker while the clock advances
NextSW1Age ==
    \/ Tick
    \/ NextSW1

SpecSW1Age == Init /\ [][NextSW1Age]_vars

\* ----------------------- service-worker.js: navigation and static assets
\* the navigations and asset requests pages send to service-worker.js
PageRequests1 ==
    { [cls |-> "nav", path |-> About, image |-> FALSE],
      [cls |-> "static", path |-> OFFLINE_PAGE, image |-> FALSE],
      [cls |-> "static", path |-> Icon, image |-> TRUE] }

\* fetch listener, GET request outside /api/: a navigation starts
\* fetch(request), anything else calls cacheFirstStrategy
SW1FetchPage(i) ==
    /\ sw1 = "activated"
    /\ reqs1[i].pc = "idle"
    /\ \E r \in PageRequests1 :
          Goto1(i, IF r.cls = "nav" THEN "nav1_fetch" ELSE "cf_match",
                [IdleSlot1 EXCEPT !.cls = r.cls, !.path = r.path, !.image = r.image])
    /\ UNCHANGED <<now, stores, swVars, appVars, sw1, act1Keys, static1, runtime1>>

\* navigation: fetch(request) settles
Nav1Fetch(i) ==
    /\ reqs1[i].pc = "nav1_fetch"
    /\ \/ Goto1(i, "nav1_match", [reqs1[i] EXCEPT !.netFailed = TRUE])
       \/ \E r \in NetResponses : Finish1(i, reqs1[i], FromNetwork(r))
    /\ UNCHANGED <<now, stores, swVars, appVars, sw1, act1Keys, static1, runtime1>>

\* navigation: .catch(() => caches.match(OFFLINE_PAGE) || caches.match('/'))
Nav1Match(i) ==
    /\ reqs1[i].pc = "nav1_match"
    /\ Finish1(i, reqs1[i],
               PromiseOr(CachesMatch1(static1, OFFLINE_PAGE), CachesMatch1(static1, Root)))
    /\ UNCHANGED <<now, stores, swVars, appVars, sw1, act1Keys, static1, runtime1>>

\* cacheFirstStrategy: await caches.match(request)
CFMatch(i) ==
    /\ reqs1[i].pc = "cf_match"
    /\ LET cachedResponse == CachesMatch1(static1, reqs1[i].path) IN
       IF cachedResponse # Undefined
         THEN Finish1(i, reqs1[i], cachedResponse)
         ELSE Goto1(i, "cf_fetch", reqs1[i])
    /\ UNCHANGED <<now, stores, swVars, appVars, sw1, act1Keys, static1, runtime1>>

\* cacheFirstStrategy: await fetch(request); a failure gives the fallback
\* SVG for an image and undefined for anything else
CFFetch(i) ==
    /\ reqs1[i].pc = "cf_fetch"
    /\ \/ Finish1(i, [reqs1[i] EXCEPT !.netFailed = TRUE],
                  IF reqs1[i].image THEN FallbackSvg ELSE Undefined)
       \/ \E r \in NetResponses :
             IF r.status = 200
               THEN Goto1(i, "cf_open", [reqs1[i] EXCEPT !.resp = r])
               ELSE Finish1(i, reqs1[i], FromNetwork(r))
    /\ UNCHANGED <<now, stores, swVars, appVars, sw1, act1Keys, static1, runtime1>>

\* cacheFirstStrategy: await caches.open(STATIC_CACHE_NAME), then cache.put
\* is started without await and networkResponse is returned
CFOpen(i) ==
    /\ reqs1[i].pc = "cf_open"
    /\ stores' = stores \cup { STATIC_CACHE_NAME }
    /\ Finish1(i, [reqs1[i] EXCEPT !.put = "pending_static"], FromNetwork(reqs1[i].resp))
    /\ UNCHANGED <<now, swVars, appVars, sw1, act1Keys, static1, runtime1>>

\* the cache.put cacheFirstStrategy started stores the asset
StaticPut1(i) ==
    /\ reqs1[i].put = "pending_static"
    /\ static1' = static1 \cup { reqs1[i].path }
    /\ reqs1' = [reqs1 EXCEPT ![i].put = "settled"]
    /\ UNCHANGED <<now, stores, swVars, appVars, sw1, act1Keys, runtime1>>

NextSW1Pages ==
    \/ SW1InstallEvent
    \/ SW1InstallOpen
    \/ SW1InstallAddAll
    \/ SW1ActivateKeys
    \/ SW1ActivateDelete
    \/ SW1ActivateClaim
    \/ \E i \in ReqIds : SW1FetchPage(i)
    \/ \E i \in ReqIds : Nav1Fetch(i)
    \/ \E i \in ReqIds : Nav1Match(i)
    \/ \E i \in ReqIds : CFMatch(i)
    \/ \E i \in ReqIds : CFFetch(i)
    \/ \E i \in ReqIds : CFOpen(i)
    \/ \E i \in ReqIds : StaticPut1(i)
    \/ \E i \in ReqIds : Retire1(i)

SpecSW1Pages == Init /\ [][NextSW1Pages]_vars

NextStatic ==
    \/ Lifecycle
    \/ \E i \in ReqIds : FetchStatic(i)
    \/ \E i \in ReqIds : StaticFetch(i)
    \/ \E i \in ReqIds : StaticOpen(i)
    \/ \E i \in ReqIds : StaticCatchOpen(i)
    \/ \E i \in ReqIds : StaticMatch(i)
    \/ \E i \in ReqIds : RuntimePut(i)
    \/ \E i \in ReqIds : Retire(i)

SpecStatic == Init /\ [][NextStatic]_vars

\* ------------------------------------------------- server: get_or_fetch
\* get_or_fetch(key, fetch_fn) is called: a live entry is returned and
\* becomes the most recently used; otherwise an expired entry is dropped
\* and the caller joins the fetch in flight for the key or starts fetch_fn
GetOrFetch(c) ==
    /\ callers[c].pc = "idle"
    /\ \E k \in SrvKeys :
          IF Has(cache, k) /\ IsLive(Get(cache, k), clock)
            THEN /\ cache' = Touch(cache, k)
                 /\ last' = Returned("hit", c, {}, k, Value(Get(cache, k).value),
                                     "", 0, clock)
                 /\ UNCHANGED <<inflight, callers>>
            ELSE /\ cache' = RemoveKey(cache, k)
                 /\ IF InFlight(inflight, k)
                      THEN /\ callers' = [callers EXCEPT ![c] = [pc |-> "waiting", key |-> k]]
                           /\ UNCHANGED inflight
                      ELSE /\ callers' = [callers EXCEPT ![c] = [pc |-> "fetching", key |-> k]]
                           /\ inflight' = inflight \cup { k }
                 /\ UNCHANGED last
    /\ UNCHANGED <<clock, pwaVars, normVars>>

\* fetch_fn returns: a value is stored and returned, a failure is returned
\* as it is and nothing is stored; the callers waiting for the key get the
\* same result, and all of them return
FetchReturns(c) ==
    /\ callers[c].pc = "fetching"
    /\ LET k == callers[c].key
           w == { d \in CallerIds : callers[d].pc = "waiting" /\ callers[d].key = k }
       IN
       \E o \in { "" } \cup UpstreamErrors :
          LET res == IF o = "" THEN Value(Observation(clock)) ELSE Failure(o)
              out == IF res.ok /\ ~Has(cache, k) /\ Len(cache) >= capacity
                       THEN Head(cache).key ELSE 0
          IN /\ cache' = IF res.ok THEN Insert(cache, k, res.value, clock) ELSE cache
             /\ inflight' = inflight \ { k }
             /\ callers' = [d \in CallerIds |->
                   IF d = c \/ d \in w THEN IdleCaller ELSE callers[d]]
             /\ last' = Returned("fetched", c, w, k, res, o, out, clock)
    /\ UNCHANGED <<clock, pwaVars, normVars>>

\* a second passes on the server
SrvTick ==
    /\ clock < ttl_seconds + MaxElapsed
    /\ clock' = clock + 1
    /\ UNCHANGED <<cache, inflight, callers, last, pwaVars, normVars>>

NextCache ==
    \/ SrvTick
    \/ \E c \in CallerIds : GetOrFetch(c)
    \/ \E c \in CallerIds : FetchReturns(c)

SpecCache == CacheInit /\ [][NextCache]_vars

\* ------------------------------------------- the same query, typed anew
SetComponent(f, str) ==
    /\ query' = [query EXCEPT ![f] = str]
    /\ nkey' = KeyOf(query')
    /\ UNCHANGED <<nkey0, pwaVars, srvVars>>

\* a space is typed in front of a component
PadLeft(f) ==
    /\ Len(query[f]) < MaxLen
    /\ SetComponent(f, <<Space>> \o query[f])

\* a space is typed after a component
PadRight(f) ==
    /\ Len(query[f]) < MaxLen
    /\ SetComponent(f, Append(query[f], Space))

\* a letter of a component is typed in the other case
ChangeCase(f) ==
    \E j \in 1..Len(query[f]) :
        /\ query[f][j] # Space
        /\ SetComponent(f, [query[f] EXCEPT ![j] =
                IF @ \in Letters THEN UpperChar(@) ELSE LowerChar(@)])

NextNormalize ==
    \/ \E f \in Components : PadLeft(f)
    \/ \E f \in Components : PadRight(f)
    \/ \E f \in Components : ChangeCase(f)

SpecNormalize == QueryInit /\ [][NextNormalize]_vars

\* --------------------------------------------- main.js: the cities grid
\* the script has run: the grid holds skeletons, cards or the alert
Loaded == citiesGrid # <<>>

Running == { c \in CallIds : cityCalls[c].pc # "idle" }

\* fetchDefaultCities() is called: the grid shows the skeletons and the
\* call waits for fetch('/api/cities')
fetchDefaultCities(c, trigger) ==
    /\ cityCalls[c].pc = "idle"
    /\ citiesGrid' = Skeletons
    /\ cityCalls' = [cityCalls EXCEPT ![c] = [pc |-> "fetch", trigger |-> trigger, data |-> <<>>]]
    /\ citiesOverlap' = (citiesOverlap \/ Running # {})

\* the last statement of the script
InitialLoad(c) ==
    /\ ~Loaded
    /\ Running = {}
    /\ fetchDefaultCities(c, "load")
    /\ UNCHANGED <<unitStored, refreshDisabled, citiesFailed>>
    /\ UNCHANGED <<locateVars, favVars, pwaVarsBase, srvVars, normVars>>

\* the unit toggle changes: setUnit(the other unit)
setUnit(c) ==
    /\ Loaded
    /\ unitStored' = IF currentUnit(unitStored) = "metric" THEN "imperial" ELSE "metric"
    /\ fetchDefaultCities(c, "unit")
    /\ UNCHANGED <<refreshDisabled, citiesFailed>>
    /\ UNCHANGED <<locateVars, favVars, pwaVarsBase, srvVars, normVars>>

\* the refresh button is clicked; a disabled button gets no click
RefreshClick(c) ==
    /\ Loaded
    /\ ~refreshDisabled
    /\ refreshDisabled' = TRUE
    /\ fetchDefaultCities(c, "refresh")
    /\ UNCHANGED <<unitStored, citiesFailed>>
    /\ UNCHANGED <<locateVars, favVars, pwaVarsBase, srvVars, normVars>>

\* the call settles; the refresh handler's finally re-enables its button
Settles(c) ==
    /\ cityCalls' = [cityCalls EXCEPT ![c] = IdleCall]
    /\ refreshDisabled' = IF cityCalls[c].trigger = "refresh" THEN FALSE ELSE refreshDisabled

\* catch: the grid shows the alert
CitiesCatch(c) ==
    /\ citiesGrid' = << Alert >>
    /\ citiesFailed' = TRUE
    /\ Settles(c)

\* await fetch('/api/cities') settles: an ok answer is parsed next, any
\* other answer and a rejection end in the catch
CitiesFetched(c) ==
    /\ cityCalls[c].pc = "fetch"
    /\ \/ \E data \in CitiesAnswers :
            /\ cityCalls' = [cityCalls EXCEPT ![c].pc = "json", ![c].data = data]
            /\ UNCHANGED <<citiesGrid, refreshDisabled, citiesFailed>>
       \/ CitiesCatch(c)
    /\ UNCHANGED <<unitStored, citiesOverlap>>
    /\ UNCHANGED <<locateVars, favVars, pwaVarsBase, srvVars, normVars>>

\* await res.json() settles: the unit is read now and the cards replace
\* whatever the grid holds
CitiesParsed(c) ==
    /\ cityCalls[c].pc = "json"
    /\ \/ /\ citiesGrid' = RenderCities(citiesGrid, cityCalls[c].data, currentUnit(unitStored))
          /\ Settles(c)
          /\ UNCHANGED citiesFailed
       \/ CitiesCatch(c)
    /\ UNCHANGED <<unitStored, citiesOverlap>>
    /\ UNCHANGED <<locateVars, favVars, pwaVarsBase, srvVars, normVars>>

NextCities ==
    \/ \E c \in CallIds : InitialLoad(c)
    \/ \E c \in CallIds : setUnit(c)
    \/ \E c \in CallIds : RefreshClick(c)
    \/ \E c \in CallIds : CitiesFetched(c)
    \/ \E c \in CallIds : CitiesParsed(c)

SpecCities == PageOpens /\ [][NextCities]_vars

\* ------------------------------------------ main.js: the location button
Locating == { h \in ClickIds : locating[h].pc # "idle" }

\* the click listener begins: the button shows its spinner and is disabled
LocateStartEnabled(btn) == [btn EXCEPT !.loading = TRUE]

LocateStart(btn) == [btn EXCEPT !.loading = TRUE, !.disabled = TRUE]

\* a click event reaches the listener, which runs up to the await of
\* getUserLocation()
ClickListener(h, how) ==
    /\ locating[h].pc = "idle"
    /\ locationBtn' = LocateStart(locationBtn)
    /\ locating' = [locating EXCEPT ![h].pc = "locating"]
    /\ locLast' = how
    /\ UNCHANGED details

\* the user clicks the button; a disabled button gets no click
LocationClick(h) ==
    /\ ~locationBtn.disabled
    /\ ClickListener(h, "click")
    /\ UNCHANGED <<citiesVars, favVars, pwaVarsBase, srvVars, normVars>>

\* keydown of Ctrl/Cmd+L: locationBtn.click() unless the button is disabled
Shortcut(h) ==
    /\ IF ~locationBtn.disabled
          THEN ClickListener(h, "shortcut")
          ELSE /\ locLast' = "shortcut_noop"
               /\ UNCHANGED <<locationBtn, locating, details>>
    /\ UNCHANGED <<citiesVars, favVars, pwaVarsBase, srvVars, normVars>>

\* finally: the spinner goes and the button is enabled again
LocateFinally(h) ==
    /\ locationBtn' = [locationBtn EXCEPT !.loading = FALSE, !.disabled = FALSE]
    /\ locating' = [locating EXCEPT ![h] = IdleClick]

\* catch: the error is shown in a toast
LocateCatch(h, err) ==
    /\ locLast' = err
    /\ UNCHANGED details
    /\ LocateFinally(h)

\* await getUserLocation() settles: the position, or geolocation is not
\* supported, denied, unavailable or timed out
Located(h) ==
    /\ locating[h].pc = "locating"
    /\ \/ \E c \in Coords :
            /\ locating' = [locating EXCEPT ![h].pc = "fetching", ![h].coords = c]
            /\ UNCHANGED <<locationBtn, locLast, details>>
       \/ \E err \in GeoErrors : LocateCatch(h, err)
    /\ UNCHANGED <<citiesVars, favVars, pwaVarsBase, srvVars, normVars>>

\* fetchWeatherByCoords: await fetch(q) settles
WeatherFetched(h) ==
    /\ locating[h].pc = "fetching"
    /\ \/ \E ok \in BOOLEAN, b \in Bodies :
            /\ locating' = [locating EXCEPT ![h].pc = "parsing", ![h].ok = ok, ![h].body = b]
            /\ UNCHANGED <<locationBtn, locLast, details>>
       \/ LocateCatch(h, "weather")
    /\ UNCHANGED <<citiesVars, favVars, pwaVarsBase, srvVars, normVars>>

\* fetchWeatherByCoords: await res.json() settles; an answer that is not ok
\* is thrown, an ok one is converted to the stored unit and shown
WeatherParsed(h) ==
    /\ locating[h].pc = "parsing"
    /\ \/ /\ locating[h].ok
          /\ LET t == Fahrenheit(locating[h].body, locating[h].coords)
             IN details' = [city |-> "here",
                            temperature |-> IF currentUnit(unitStored) = "metric"
                                               THEN convert(t) ELSE t]
          /\ locLast' = "success"
          /\ LocateFinally(h)
       \/ LocateCatch(h, "weather")
    /\ UNCHANGED <<citiesVars, favVars, pwaVarsBase, srvVars, normVars>>

NextLocate ==
    \/ \E h \in ClickIds : LocationClick(h)
    \/ \E h \in ClickIds : Shortcut(h)
    \/ \E h \in ClickIds : Located(h)
    \/ \E h \in ClickIds : WeatherFetched(h)
    \/ \E h \in ClickIds : WeatherParsed(h)

SpecLocate == PageOpens /\ [][NextLocate]_vars

\* ------------------------------------------------- main.js: favourites
\* toggleFavorite(city, country): getFavorites, findIndex, splice or push,
\* saveFavorites, return index === -1
toggleFavorite(city, country) ==
    LET key == FavKey(city, country)
        index == findIndex(favorites, key)
        entry == [key |-> key, city |-> city, country |-> country, added |-> now]
    IN /\ favorites' = Toggled(favorites, index, entry)
       /\ favLast' = [key |-> key, returned |-> (index = -1)]
       /\ UNCHANGED <<citiesVars, locateVars, pwaVarsBase, srvVars, normVars>>

NextFavorites == \E p \in Places : toggleFavorite(p[1], p[2])

SpecFavorites == PageOpens /\ [][NextFavorites]_vars

\* ================================================================= claims
Done(i) == reqs[i].pc = "done"
\* a finished API request whose fetch(req) failed
ApiNetFailed(i) == Done(i) /\ IsApi(reqs[i].req) /\ reqs[i].netFailed
\* a finished navigation request whose fetch(req) failed
NavNetFailed(i) ==
    Done(i) /\ ~IsApi(reqs[i].req) /\ IsNavigation(reqs[i].req) /\ reqs[i].netFailed
\* age of the entry cache.match returned to request i, when it was read
CachedAge(i) == reqs[i].at - reqs[i].cached.time

\* C1: sw.js, API request, network failed: an api-cache entry stored more
\* than API_CACHE_TTL ms before the read is never the response, and when
\* the lookup found such an entry the response is the synthesized 503.
C1_StaleEntryNotServed ==
    \A i \in ReqIds :
        ApiNetFailed(i) =>
            /\ reqs[i].result.kind = "cache" =>
                   reqs[i].at - reqs[i].result.resp.time <= 300000
            /\ (reqs[i].cached # NoEntry /\ CachedAge(i) > 300000) =>
                   reqs[i].result = Synth503

C1_Witness ==
    \E i \in ReqIds :
        /\ ApiNetFailed(i)
        /\ reqs[i].cached # NoEntry
        /\ CachedAge(i) > 300000
        /\ reqs[i].result = Synth503

\* C2: sw.js, API request, network failed: when the lookup found an entry
\* with now - cached_at <= TTL (boundary included), that entry is the
\* response.
C2_FreshEntryServed ==
    \A i \in ReqIds :
        (ApiNetFailed(i) /\ reqs[i].cached # NoEntry /\ CachedAge(i) <= 300000) =>
            reqs[i].result = FromCache(API_CACHE, reqs[i].req.path, reqs[i].cached)

C2_Witness ==
    \E i \in ReqIds :
        /\ ApiNetFailed(i)
        /\ reqs[i].cached # NoEntry
        /\ CachedAge(i) = 300000
        /\ reqs[i].result.kind = "cache"
        /\ reqs[i].result.resp = reqs[i].cached

\* C3: sw.js, navigation: the page stored on a network success is the page
\* served when the network later fails for the same request.
C3_StoredPageServedOnFailure ==
    \A i \in ReqIds :
        (NavNetFailed(i) /\ ~reqs[i].storeFailed /\ runtime[reqs[i].req.path] # NoEntry) =>
            /\ reqs[i].result.kind = "cache"
            /\ reqs[i].result.key = reqs[i].req.path
            /\ reqs[i].result.resp = runtime[reqs[i].req.path]

\* C4: sw.js, install: an asset that cannot be fetched does not abort the
\* installation, the promise given to waitUntil still resolves.
C4_AssetFailureKeepsInstall == assetFail => sw # "redundant"

\* C5: service-worker.js: once every request has been handled and every
\* cache.put has settled, the runtime store holds at most maxEntries
\* entries.
C5_RuntimeBounded ==
    (\A i \in ReqIds : reqs1[i].pc \in { "idle", "done" } /\ reqs1[i].put # "pending")
        => Len(runtime1) <= 50

\* C6: sw.js, activate: after the deletions the store names are exactly
\* the names read by caches.keys() that are current identifiers.
C6_ActivationKeepsCurrentOnly ==
    sw = "activate_claim" => stores = actKeys \cap CurrentNames

C6_Witness ==
    /\ sw = "activate_claim"
    /\ actKeys \ CurrentNames # {}
    /\ CurrentNames \subseteq stores

\* C7 as stated: whenever fetch(req) resolves for an API request, the
\* caller gets the network response and api-cache holds a copy of it
\* stamped with the time of storing.
C7_EveryResponseStored ==
    \A i \in ReqIds :
        (Done(i) /\ IsApi(reqs[i].req) /\ ~reqs[i].netFailed) =>
            /\ reqs[i].result.kind = "network"
            /\ apiCache[reqs[i].req.path] = Stamped(reqs[i].result.resp, reqs[i].at)

\* C7 amended: the caller always gets the network response; the copy is
\* built with sw-cache-time = Date.now() once the body has been read; a
\* response with ok status whose cache write succeeds is stored as that
\* copy under the request, and in every other case api-cache is unchanged.
C7_OkResponseStored ==
    [][\A i \in ReqIds :
        /\ (reqs[i].pc = "api_blob" /\ reqs'[i].pc = "api_open") =>
               /\ reqs'[i].newResp = Resp(reqs[i].resp.status, reqs[i].resp.body, now)
               /\ IsOk(reqs[i].resp)
        /\ (IsApi(reqs[i].req) /\ ~Done(i) /\ reqs'[i].pc = "done" /\ ~reqs'[i].netFailed) =>
               /\ reqs'[i].result.kind = "network"
               /\ reqs'[i].result.resp \in NetResponses
               /\ reqs[i].pc # "api_fetch" => reqs'[i].result.resp = reqs[i].resp
               /\ IF reqs[i].pc = "api_put" /\ ~reqs'[i].storeFailed
                    THEN /\ apiCache' = [apiCache EXCEPT
                                ![reqs[i].req.path] = reqs[i].newResp]
                         /\ reqs[i].newResp.time <= now
                    ELSE apiCache' = apiCache
      ]_vars

C7_Witness ==
    \E i \in ReqIds :
        /\ Done(i) /\ IsApi(reqs[i].req) /\ ~reqs[i].netFailed /\ ~reqs[i].storeFailed
        /\ reqs[i].result.kind = "network"
        /\ reqs[i].result.resp.status = 200
        /\ apiCache[reqs[i].req.path].body = reqs[i].result.resp.body
        /\ apiCache[reqs[i].req.path].time >= StartTime
        /\ apiCache[reqs[i].req.path].time < reqs[i].at

\* C8: sw.js, API request, network failed, no fresh api-cache entry: the
\* handler resolves with the synthesized 503, it never rejects.
C8_NoFreshEntryGives503 ==
    \A i \in ReqIds :
        (/\ ApiNetFailed(i)
         /\ \/ apiCache[reqs[i].req.path] = NoEntry
            \/ reqs[i].at - apiCache[reqs[i].req.path].time > 300000) =>
            reqs[i].result = Synth503

\* C9: sw.js, network failed and the cache store is unavailable: the
\* handler takes the next tier (the synthesized 503 for an API request)
\* and does not reject.
C9_StoreFailureIsMiss ==
    \A i \in ReqIds :
        (ApiNetFailed(i) /\ reqs[i].storeFailed) => reqs[i].result = Synth503

\* what the claimed order of the navigation fallback gives on store pc
NavByTiers(pcStore, r) ==
    IF CacheMatch(pcStore, r) # NoEntry
      THEN FromCache(PRECACHE, r.path, pcStore[r.path])
      ELSE IF pcStore[Root] # NoEntry
             THEN FromCache(PRECACHE, Root, pcStore[Root])
             ELSE IF pcStore[Offline] # NoEntry
                    THEN FromCache(PRECACHE, Offline, pcStore[Offline])
                    ELSE Undefined

\* C10: sw.js, navigation request, network failed: the answer is the
\* precache entry of the request, else the entry of '/', else the entry of
\* '/offline'; a later tier only when the earlier ones have no entry.
C10_NavigationFallbackOrder ==
    \A i \in ReqIds :
        (NavNetFailed(i) /\ ~reqs[i].storeFailed) =>
            reqs[i].result = NavByTiers(precache, reqs[i].req)

C10_Witness ==
    \E i \in ReqIds :
        /\ NavNetFailed(i)
        /\ precache[reqs[i].req.path] = NoEntry
        /\ reqs[i].result = FromCache(PRECACHE, Root, precache[Root])

\* C11: once the worker is installed, a navigation request made while the
\* network is unavailable is answered with a page, never with undefined.
C11_OfflineNavigationGetsPage ==
    \A i \in ReqIds :
        (reqs1[i].pc = "done" /\ reqs1[i].cls = "nav" /\ reqs1[i].netFailed) =>
            reqs1[i].result.kind = "cache"

\* C12: sw.js, static-asset request: a response obtained from the network
\* is forwarded to the caller and its copy goes to the runtime store; when
\* fetch fails the runtime entry of the request is returned if there is
\* one, and otherwise the fetch failure is what the caller gets.
C12_StaticNetworkFirst ==
    [][\A i \in ReqIds :
        /\ (reqs[i].pc = "static_open" /\ reqs'[i] # reqs[i]) =>
               /\ reqs'[i].pc = "done"
               /\ reqs'[i].result = FromNetwork(reqs[i].resp)
               /\ reqs'[i].put = "pending"
        /\ (reqs[i].pc = "static_fetch" /\ reqs'[i].pc = "static_catch_open") =>
               reqs'[i].err = "network"
        /\ (reqs[i].netFailed /\ reqs[i].pc \in { "static_catch_open", "static_match" }
            /\ reqs'[i].pc = "done") =>
               reqs'[i].result =
                   IF runtime[reqs[i].req.path] # NoEntry
                     THEN FromCache(RUNTIME, reqs[i].req.path, runtime[reqs[i].req.path])
                     ELSE Rejected("network")
      ]_vars

\* C14: service-worker.js, API request: a response taken from the runtime
\* cache after a network failure was stored at most maxAgeSeconds ago.
C14_CachedApiWithinMaxAge ==
    \A i \in ReqIds :
        (reqs1[i].pc = "done" /\ reqs1[i].cls = "api" /\ reqs1[i].result.kind = "cache") =>
            reqs1[i].at - reqs1[i].cachedAt <= maxAgeSeconds * 1000

\* C13: sw.js calls respondWith exactly once per fetch event, with the API
\* policy when the path starts with /api/ (even for a navigation),
\* otherwise with the navigation policy when the mode is navigate or the
\* request is a GET accepting text/html, otherwise with the static policy.
C13_ExactlyOnePolicy ==
    \A i \in ReqIds :
        reqs[i].pc # "idle" =>
            LET r == reqs[i].req
                policy == IF Len(r.path) >= 2 /\ r.path[1] = "api" THEN "api"
                          ELSE IF r.mode = "navigate" \/ (r.method = "GET" /\ r.html)
                                 THEN "nav"
                                 ELSE "static"
            IN /\ reqs[i].calls = <<policy>>
               /\ reqs[i].pc = policy \o "_fetch"

C13_Witness ==
    \E i \in ReqIds :
        /\ reqs[i].pc = "api_fetch"
        /\ reqs[i].req.path = ApiWeather
        /\ reqs[i].req.mode = "navigate"
        /\ reqs[i].req.html
        /\ reqs[i].calls = <<"api">>

\* C15: the server cache never holds more than capacity entries.
C15_SizeWithinCapacity == Size(cache) <= capacity

C15_Witness ==
    /\ last.kind = "fetched"
    /\ last.evicted # 0
    /\ Size(cache) = capacity

HitStep == last' # last /\ last'.kind = "hit"
FetchedStep ==
    \E c \in CallerIds : callers[c].pc = "fetching" /\ callers'[c].pc = "idle"

\* C16: an entry is stored with expires_at = insertion time + ttl_seconds;
\* get_or_fetch before that time returns its value without invoking
\* fetch_fn, get_or_fetch after that time never returns it and a fetch_fn
\* call for the key is awaited instead.
C16_TtlWindow ==
    [][/\ (FetchedStep /\ last'.result.ok) =>
              /\ Has(cache', last'.key)
              /\ Get(cache', last'.key) =
                     CacheEntry(last'.key, last'.result.value, clock + ttl_seconds)
       /\ HitStep =>
              /\ Has(cache, last'.key)
              /\ ~(clock > Get(cache, last'.key).expires_at)
              /\ last'.result = Value(Get(cache, last'.key).value)
              /\ inflight' = inflight
              /\ callers' = callers
       /\ \A c \in CallerIds :
              (callers[c].pc = "idle" /\ callers'[c].pc # "idle") =>
                  /\ ~(/\ Has(cache, callers'[c].key)
                       /\ clock < Get(cache, callers'[c].key).expires_at)
                  /\ callers'[c].key \in inflight'
                  /\ ~Has(cache', callers'[c].key)
      ]_vars

C16_Witness ==
    /\ last.kind = "hit"
    /\ last.at > 0
    /\ Has(cache, last.key)
    /\ Get(cache, last.key).expires_at = ttl_seconds
    /\ last.result = Value(Observation(0))

\* C17: for one key at most one fetch_fn call is in flight; a caller that
\* finds the key in flight waits for that call and returns when it does,
\* with the same result as the caller that made it; a caller waits only if
\* its own key is in flight.
C17_OneFetchPerKey ==
    [][/\ \A c, d \in CallerIds :
            (c # d /\ callers'[c].pc = "fetching" /\ callers'[d].pc = "fetching") =>
                callers'[c].key # callers'[d].key
       /\ \A c \in CallerIds :
            callers'[c].pc = "waiting" =>
                \E d \in CallerIds :
                    callers'[d].pc = "fetching" /\ callers'[d].key = callers'[c].key
       /\ \A c \in CallerIds :
            (callers[c].pc = "idle" /\ callers'[c].pc = "fetching") =>
                callers'[c].key \notin inflight
       /\ \A c, d \in CallerIds :
            (/\ callers[c].pc = "fetching" /\ callers[d].pc = "waiting"
             /\ callers[c].key = callers[d].key
             /\ callers'[c].pc = "idle") =>
                /\ callers'[d].pc = "idle"
                /\ last'.kind = "fetched"
                /\ last'.key = callers[c].key
                /\ last'.caller = c
                /\ d \in last'.waiters
      ]_vars

C17_Witness ==
    /\ last.kind = "fetched"
    /\ last.waiters # {}
    /\ last.result.ok
    /\ \E c \in CallerIds : callers[c].pc = "fetching" /\ callers[c].key # last.key

\* C18: when fetch_fn fails the caller gets the error fetch_fn raised, the
\* cache is left as it was, and a later get_or_fetch for a key that is
\* neither cached nor in flight invokes fetch_fn.
C18_FailureNotCached ==
    [][/\ (FetchedStep /\ last'.raised # "") =>
              /\ last'.result = [ok |-> FALSE, value |-> 0, error |-> last'.raised]
              /\ cache' = cache
              /\ last'.key \notin inflight'
       /\ HitStep => Has(cache, last'.key)
       /\ \A c \in CallerIds :
              (callers[c].pc = "idle" /\ callers'[c].pc = "waiting") =>
                  callers'[c].key \in inflight
      ]_vars

C18_Witness ==
    /\ last.kind = "fetched"
    /\ last.result = [ok |-> FALSE, value |-> 0, error |-> "timeout"]
    /\ ~Has(cache, last.key)
    /\ \E c \in CallerIds : callers[c].pc = "fetching" /\ callers[c].key = last.key

\* C19: an insert of a new key into a full cache leaves capacity entries,
\* without the least recently used one and with the others in their order;
\* a read of a live entry makes it the most recently used one and leaves
\* the entry, its expires_at included, and the order of the others as they
\* were.
C19_LruEviction ==
    [][/\ (/\ FetchedStep /\ last'.result.ok
           /\ Len(cache) = capacity /\ ~Has(cache, last'.key)) =>
              /\ Len(cache') = capacity
              /\ ~Has(cache', cache[1].key)
              /\ \A j \in 2..capacity : cache'[j - 1] = cache[j]
              /\ cache'[capacity].key = last'.key
       /\ HitStep =>
              /\ Len(cache') = Len(cache)
              /\ cache'[Len(cache')] = Get(cache, last'.key)
              /\ RemoveKey(cache', last'.key) = RemoveKey(cache, last'.key)
      ]_vars

C19_Witness ==
    /\ last.kind = "fetched"
    /\ last.evicted # 0
    /\ ~Has(cache, last.evicted)
    /\ Len(cache) = capacity
    /\ cache[capacity].key = last.key
    /\ \A j \in 1..Len(cache) : cache[j].expires_at = clock + ttl_seconds

\* C20: a query that differs from the query first written only in the case
\* of its letters and in the whitespace around its components has the same
\* key.
C20_SameKey == nkey = nkey0

C20_Witness ==
    /\ nkey = nkey0
    /\ Len(query.city) = MaxLen
    /\ query.city[1] = Space
    /\ query.city[MaxLen] \in Capitals
    /\ query.country = <<"B", Space>>

\* C21: sw.js, API request, fetch succeeded: when the store cannot be
\* opened or the put is rejected, the handler still resolves with the
\* network response as it came, and api-cache is left as it was.
C21_CachingErrorSwallowed ==
    [][\A i \in ReqIds :
        (/\ reqs[i].pc \in { "api_open", "api_put" }
         /\ reqs'[i].pc = "done"
         /\ reqs'[i].storeFailed) =>
            /\ reqs[i].resp \in NetResponses
            /\ reqs'[i].result = FromNetwork(reqs[i].resp)
            /\ apiCache' = apiCache
      ]_vars

C21_Witness ==
    \E i \in ReqIds :
        /\ Done(i) /\ IsApi(reqs[i].req)
        /\ ~reqs[i].netFailed /\ reqs[i].storeFailed
        /\ reqs[i].result = FromNetwork(Resp(200, 1, 0))
        /\ apiCache[reqs[i].req.path] = NoEntry

\* C22: sw.js, API request, network failed, api-cache read: an entry
\* without sw-cache-time, or with one that is not a number, is not served;
\* the synthesized 503 is returned.
C22_UnstampedEntryIsMiss ==
    \A i \in ReqIds :
        (/\ ApiNetFailed(i)
         /\ ~reqs[i].storeFailed
         /\ reqs[i].cached # NoEntry
         /\ reqs[i].cached.time \in { 0, NaN }) =>
            reqs[i].result = Synth503

C22_Witness ==
    \E i \in ReqIds :
        /\ ApiNetFailed(i)
        /\ reqs[i].cached = Resp(200, 1, NaN)
        /\ apiCache[reqs[i].req.path] = Resp(200, 1, NaN)
        /\ reqs[i].result = Synth503

\* C23: sw.js, API request, network failed: the catch block leaves
\* api-cache as it is, whether the entry of the request is fresh, expired
\* or absent.
C23_ExpiredEntriesNotSwept ==
    [][\A i \in ReqIds :
        (/\ reqs[i].pc \in { "api_catch_open", "api_catch_match" }
         /\ reqs'[i] # reqs[i]) =>
            apiCache' = apiCache
      ]_vars

C23_Witness ==
    \E i \in ReqIds :
        /\ ApiNetFailed(i)
        /\ reqs[i].result = Synth503
        /\ reqs[i].cached # NoEntry
        /\ apiCache[reqs[i].req.path] = reqs[i].cached
        /\ reqs[i].at - reqs[i].cached.time > 300000

\* C24: sw.js, activate: clients.claim() is called once every store that
\* caches.keys() listed and that is not a current identifier has been
\* deleted; the worker is activated, and pages' requests reach it, only
\* after the claim.
C24_ClaimAfterDeletions ==
    [][/\ (sw' = "activate_claim" /\ sw # "activate_claim") =>
              /\ sw = "activate_delete"
              /\ \A k \in actKeys : k \in stores' => k \in { PRECACHE, RUNTIME, API_CACHE }
       /\ (sw' = "activated" /\ sw # "activated") =>
              /\ sw = "activate_claim"
              /\ \A k \in actKeys : k \in stores => k \in { PRECACHE, RUNTIME, API_CACHE }
       /\ (reqs' # reqs) => (sw = "activated" /\ sw' = "activated")
      ]_vars

C24_Witness ==
    /\ sw = "activated"
    /\ "precache-v1" \in actKeys
    /\ "precache-v1" \notin stores
    /\ \E i \in ReqIds : reqs[i].pc = "api_fetch"

C26_PrecacheWrittenByInstallOnly ==
    [][/\ (precache' # precache) =>
              /\ sw = "install_addAll"
              /\ sw' = "installed"
              /\ reqs' = reqs
       /\ (reqs' # reqs) => precache' = precache
      ]_vars

C26_Witness ==
    /\ \A p \in PRECACHE_URLS : precache[p] = InstalledAsset
    /\ precache[About] = NoEntry
    /\ runtime[About] # NoEntry
    /\ \E i \in ReqIds : Done(i) /\ reqs[i].put = "settled" /\ reqs[i].req.path = About

\* C27: sw.js: every api-cache entry is the copy of a network response
\* with ok status to a /api/ request, stamped with a time that is not in
\* the future; an API response with another status is returned to the
\* caller and api-cache stays as it was.
C27_ApiCacheEntries ==
    [][/\ \A p \in Paths :
            apiCache'[p] # NoEntry =>
                /\ Len(p) >= 2 /\ p[1] = "api"
                /\ apiCache'[p].status \in 200..299
                /\ apiCache'[p].time >= StartTime
                /\ apiCache'[p].time <= now'
       /\ \A i \in ReqIds :
            (/\ reqs[i].pc = "api_fetch" /\ reqs'[i].pc = "done") =>
                /\ reqs'[i].result.kind = "network"
                /\ reqs'[i].result.resp.status \notin 200..299
                /\ apiCache' = apiCache
      ]_vars

C27_Witness ==
    \E i \in ReqIds :
        /\ Done(i) /\ IsApi(reqs[i].req)
        /\ reqs[i].result = FromNetwork(Resp(404, 0, 0))
        /\ apiCache[reqs[i].req.path] # NoEntry
        /\ apiCache[reqs[i].req.path].time < now

\* C28: once every overlapping fetchDefaultCities call (initial load, unit
\* toggle, refresh button) has settled and none of them failed, the grid
\* holds no skeleton and exactly the cards of one answer, one per item and
\* in the answer's order, with the temperatures in the stored unit
AllSettled == Running = {}

C28_GridShowsOneAnswer ==
    (Loaded /\ AllSettled /\ ~citiesFailed) =>
        /\ \A j \in 1..Len(citiesGrid) : citiesGrid[j].kind \notin { "skeleton", "alert" }
        /\ \E data \in CitiesAnswers :
              /\ Len(citiesGrid) = Len(data)
              /\ citiesGrid = Cards(data, currentUnit(unitStored))

C28_Witness ==
    /\ Loaded /\ AllSettled /\ ~citiesFailed /\ citiesOverlap
    /\ unitStored = "metric"
    /\ \E b \in Bodies : citiesGrid = Cards(Answer(b, {}), "metric")

\* C29: at most one locate-and-fetch-weather operation is in flight; the
\* location button is disabled exactly while one is, from the click until
\* it settles; Ctrl/Cmd+L pressed while the button is disabled starts
\* nothing; and the operation's end, success or any failure, leaves the
\* button enabled
C29_OneLocateInFlight ==
    [][ /\ Cardinality(Locating') <= 1
        /\ locationBtn'.disabled <=> Locating' # {}
        /\ locationBtn.disabled => Locating' \subseteq Locating
        /\ \A h \in Locating \ Locating' :
              /\ ~locationBtn'.disabled
              /\ locLast' \in { "success" } \cup LocateErrors ]_vars

C29_Witness ==
    /\ locLast = "shortcut_noop"
    /\ locationBtn.disabled
    /\ \E h \in ClickIds : locating[h].pc = "parsing"

\* C30: from an empty favourites list on, the stored list never holds two
\* entries with the same key; a toggleFavorite(city, country) flips the
\* membership of the key "city,country", leaves the entries of every other
\* key as they were and in their order, and returns true exactly when the
\* key is a favourite afterwards
FavKeys(favs) == { favs[j].key : j \in 1..Len(favs) }
NoDuplicateKeys(favs) == \A i, j \in 1..Len(favs) : favs[i].key = favs[j].key => i = j
Others(favs, key) == SelectSeq(favs, LAMBDA f : f.key # key)

C30_ToggleFlipsOneKey ==
    [][ favorites' # favorites =>
          LET key == favLast'.key
          IN /\ NoDuplicateKeys(favorites')
             /\ \E p \in Places : key = FavKey(p[1], p[2])
             /\ (key \in FavKeys(favorites')) <=> (key \notin FavKeys(favorites))
             /\ Others(favorites', key) = Others(favorites, key)
             /\ favLast'.returned <=> (key \in FavKeys(favorites')) ]_vars

C30_Witness ==
    /\ Len(favorites) = 2
    /\ favLast = [key |-> "a,b,c", returned |-> FALSE]
    /\ isFavorite(favorites, "a", "c")
    /\ ~isFavorite(favorites, "a,b", "c")

====
